---- MODULE Spec2Model ----
(***************************************************************************)
(* Model of the UpsetPlot application: the intersection-data model         *)
(* (UpsetMatrixData), the text parser (parseUpsetMatrix), the upload       *)
(* handling of the Home component and the interaction state machine of the *)
(* UpsetPlot chart.                                                        *)
(*                                                                         *)
(* A JavaScript string is a sequence of one-character strings, so that     *)
(* split, trim, startsWith and parseInt are computed character by          *)
(* character as the runtime computes them.                                 *)
(***************************************************************************)
EXTENDS Integers, Sequences, FiniteSets, TLC

VARIABLES
    upsetMatrix,            \* UpsetMatrixData under construction / held by the chart
    upsetMatrixFile,        \* Home: the useState value (data, fileName, status)
    uploads,                \* Home: the calls of handleUpsetMatrixFileUpload so far
    completed,              \* Home: indices of uploads, in the order their handler finished
    errorModalVisible,      \* Home: useState errorModalVisible
    errorMessage,           \* Home: useState errorMessage
    selectedIntersections,  \* UpsetPlot: the keys selected, an array
    hoveredIntersection,    \* UpsetPlot: the key hovered, or Null
    onIntersectionClick,    \* UpsetPlot: TRUE when an external click handler is set
    dimensions,             \* UpsetPlot: width, height and fontSize of the chart
    svg,                    \* UpsetPlot: the elements drawn, each with its datum and fill
    tooltip,                \* the #upset-tooltip element of the document
    pointerRow,             \* the event rectangle the pointer has entered, 0 for none
    opLog                   \* the last two handler runs: what ran, on which key, the
                            \* selection before it, what it redrew, what it called

plotVars == <<selectedIntersections, hoveredIntersection, onIntersectionClick,
              dimensions, svg, tooltip, pointerRow, opLog>>

vars == <<upsetMatrix, upsetMatrixFile, uploads, completed,
          errorModalVisible, errorMessage, selectedIntersections,
          hoveredIntersection, onIntersectionClick, dimensions, svg, tooltip,
          pointerRow, opLog>>

homeVars == <<upsetMatrixFile, uploads, completed, errorModalVisible, errorMessage>>

(***************************************************************************)
(* Bounds                                                                  *)
(***************************************************************************)
MaxInter == 3        \* addIntersection calls on one UpsetMatrixData
MaxTextLen == 5      \* characters of an uploaded text
MaxUploads == 3      \* uploads requested in one session
MaxRows == 2         \* intersections of the model a chart is built on
MaxSelArg == 2       \* keys in an argument of setSelectedIntersections
MaxNameLen == 26     \* characters of a set name in the layout
MaxFontHint == 14    \* font size given to the chart in the layout

(***************************************************************************)
(* Strings                                                                 *)
(***************************************************************************)
TAB == "\t"
NL == "\n"
COMMA == ","
HASH == "#"

Range(s) == {s[i] : i \in 1..Len(s)}

Last(s) == s[Len(s)]

\* String.prototype.split with a one-character separator
RECURSIVE split(_, _)
split(s, sep) ==
    IF \A i \in 1..Len(s) : s[i] # sep
    THEN <<s>>
    ELSE LET k == CHOOSE i \in 1..Len(s) :
                      s[i] = sep /\ \A j \in 1..(i - 1) : s[j] # sep
         IN  <<SubSeq(s, 1, k - 1)>> \o split(SubSeq(s, k + 1, Len(s)), sep)

\* the white space and line terminators String.prototype.trim strips
WhiteSpace == {" ", "\t", "\n", "\r"}

RECURSIVE trimStart(_)
trimStart(s) ==
    IF s # <<>> /\ s[1] \in WhiteSpace THEN trimStart(Tail(s)) ELSE s

RECURSIVE trimEnd(_)
trimEnd(s) ==
    IF s # <<>> /\ s[Len(s)] \in WhiteSpace
    THEN trimEnd(SubSeq(s, 1, Len(s) - 1))
    ELSE s

\* String.prototype.trim
trim(s) == trimEnd(trimStart(s))

\* String.prototype.startsWith with a one-character prefix
startsWith(s, c) == s # <<>> /\ s[1] = c

Digits == {"0", "1", "2", "3", "4", "5", "6", "7", "8", "9"}

DigitValue(c) ==
    CASE c = "0" -> 0 [] c = "1" -> 1 [] c = "2" -> 2 [] c = "3" -> 3
      [] c = "4" -> 4 [] c = "5" -> 5 [] c = "6" -> 6 [] c = "7" -> 7
      [] c = "8" -> 8 [] c = "9" -> 9

\* the longest prefix of s made of decimal digits
RECURSIVE digitPrefix(_)
digitPrefix(s) ==
    IF s # <<>> /\ s[1] \in Digits THEN <<s[1]>> \o digitPrefix(Tail(s)) ELSE <<>>

RECURSIVE digitsToNat(_)
digitsToNat(ds) ==
    IF ds = <<>> THEN 0
    ELSE 10 * digitsToNat(SubSeq(ds, 1, Len(ds) - 1)) + DigitValue(ds[Len(ds)])

\* parseInt(s, 10): leading white space is skipped, an optional sign is
\* read, then the longest run of digits; what follows the digits is ignored;
\* no digit at all gives NaN
parseInt(s) ==
    LET t    == trimStart(s)
        neg  == t # <<>> /\ t[1] = "-"
        sgn  == t # <<>> /\ t[1] \in {"-", "+"}
        body == IF sgn THEN Tail(t) ELSE t
        ds   == digitPrefix(body)
    IN  IF ds = <<>>
        THEN [isNaN |-> TRUE, number |-> 0]
        ELSE [isNaN |-> FALSE,
              number |-> IF neg THEN 0 - digitsToNat(ds) ELSE digitsToNat(ds)]

(***************************************************************************)
(* UpsetMatrixData                                                         *)
(***************************************************************************)
\* new UpsetMatrixData(): sets is a JavaScript Set, kept here as the
\* sequence of its elements in insertion order
NewUpsetMatrixData == [sets |-> <<>>, intersections |-> <<>>]

getSets(data) == data.sets

getIntersections(data) == data.intersections

\* addSet as it would be with an array in place of the Set: no deduplication
addSet_NoDedup(data, name) == [data EXCEPT !.sets = Append(@, name)]

\* Set.prototype.add: no effect when the name is already an element
addSet(data, name) ==
    IF name \in Range(data.sets)
    THEN data
    ELSE [data EXCEPT !.sets = Append(@, name)]

RECURSIVE addSets(_, _)
addSets(data, setNames) ==
    IF setNames = <<>> THEN data
    ELSE addSets(addSet(data, Head(setNames)), Tail(setNames))

addIntersection(data, set, value) ==
    LET pushed == [data EXCEPT !.intersections =
                       Append(@, [set |-> set, value |-> value])]
    IN  addSets(pushed, split(set, COMMA))

\* the maximum of a non-empty sequence of numbers
RECURSIVE max(_)
max(values) ==
    IF Len(values) = 1 THEN Head(values)
    ELSE LET m == max(Tail(values))
         IN  IF Head(values) >= m THEN Head(values) ELSE m

getMaxIntersectionValue_FloorZero(data) ==
    IF Len(data.intersections) = 0 THEN 0
    ELSE LET m == max([i \in 1..Len(data.intersections) |-> data.intersections[i].value])
         IN  IF m >= 0 THEN m ELSE 0

getMaxIntersectionValue(data) ==
    IF Len(data.intersections) = 0 THEN 0
    ELSE max([i \in 1..Len(data.intersections) |-> data.intersections[i].value])

isSetInIntersection(setName, intersection) ==
    setName \in Range(split(intersection, COMMA))

(***************************************************************************)
(* UpsetPlot: what render draws, and the recolouring of what is drawn      *)
(***************************************************************************)
\* null: no string, so no sequence of characters
Null == <<"null">>

includes(array, x) == x \in Range(array)

\* Array.prototype.filter(s => s !== x)
RECURSIVE without(_, _)
without(array, x) ==
    IF array = <<>> THEN <<>>
    ELSE IF Head(array) = x THEN without(Tail(array), x)
    ELSE <<Head(array)>> \o without(Tail(array), x)

\* fill of a background cell in render
gridCellFill(selected, hovered, d) ==
    LET isSelected == includes(selected, d.intersection.set)
        isHovered  == hovered = d.intersection.set
    IN  IF isSelected THEN "#FF9806" ELSE IF isHovered THEN "#FFBD62" ELSE "white"

\* fill of a membership dot in render
circleFill(selected, hovered, d) ==
    LET isSelected == includes(selected, d.intersection.set)
        isHovered  == hovered = d.intersection.set
        isIncluded == isSetInIntersection(d.set, d.intersection.set)
    IN  IF isSelected
        THEN IF isIncluded THEN "#FF6F00" ELSE "#807A79"
        ELSE IF isIncluded
             THEN IF isHovered THEN "#FF9C46" ELSE "#030202"
             ELSE "#807A79"

\* fill of a value bar in render
valueBarFill(selected, hovered, d) ==
    LET isSelected == includes(selected, d.set)
        isHovered  == hovered = d.set
    IN  IF isSelected THEN "#FF6F00" ELSE IF isHovered THEN "#FF9C46" ELSE "#030202"

\* the svg after selectAll("*").remove()
EmptySvg ==
    [container |-> FALSE, layout |-> <<>>, setLabels |-> <<>>, gridCells |-> <<>>,
     circles |-> <<>>, valueBars |-> <<>>, eventRects |-> <<>>]

Max2(a, b) == IF a >= b THEN a ELSE b

Min2(a, b) == IF a <= b THEN a ELSE b

\* d3.max(sets, d => d.length) || 0
RECURSIVE maxLabelLength(_)
maxLabelLength(sets) ==
    IF sets = <<>> THEN 0
    ELSE Max2(Len(Head(sets)), maxLabelLength(Tail(sets)))

\* the label font size computed without the cap of 12
labelFontSize4_NoCap(fontSize, sets) ==
    Min2(4 * fontSize, Max2(4 * 8, 4 * 14 - maxLabelLength(sets)))

\* labelFontSize, in quarters of a pixel:
\* Math.min(12, fontSize, Math.max(8, 14 - maxLabelLength / 4))
labelFontSize4(fontSize, sets) ==
    Min2(Min2(4 * 12, 4 * fontSize), Max2(4 * 8, 4 * 14 - maxLabelLength(sets)))

\* the margins and the effective width of render, in hundredths of a pixel
\* (right = max(60, 0.1 width), left = max(70, 0.15 width)), its effective
\* height in pixels (top 30, bottom 10) and the label font size
layout(dims, sets) ==
    LET right100 == Max2(100 * 60, 10 * dims.width)
        left100  == Max2(100 * 70, 15 * dims.width)
    IN  [marginLeft100  |-> left100,
         marginRight100 |-> right100,
         width100       |-> 100 * dims.width - left100 - right100,
         height         |-> dims.height - 30 - 10,
         labelFontSize4 |-> labelFontSize4(dims.fontSize, sets)]

\* what render appends once past its test for an empty model: the
\* container at the margins, the set labels at the label font size, one row
\* of cells and dots per intersection, the bars and the event rectangles,
\* each element bound to its datum
draw(matrix, dims, selected, hovered) ==
    LET sets          == getSets(matrix)
        intersections == getIntersections(matrix)
        datum(i, j)   == [set |-> sets[j], intersection |-> intersections[i],
                          index |-> i - 1]
    IN  [container  |-> TRUE,
         layout     |-> <<layout(dims, sets)>>,
         setLabels  |-> sets,
         gridCells  |-> [i \in 1..Len(intersections) |->
                           [j \in 1..Len(sets) |->
                              [datum |-> datum(i, j),
                               fill  |-> gridCellFill(selected, hovered,
                                                      datum(i, j))]]],
         circles    |-> [i \in 1..Len(intersections) |->
                           [j \in 1..Len(sets) |->
                              [datum |-> datum(i, j),
                               fill  |-> circleFill(selected, hovered,
                                                    datum(i, j))]]],
         valueBars  |-> [i \in 1..Len(intersections) |->
                           [datum |-> intersections[i],
                            fill  |-> valueBarFill(selected, hovered,
                                                   intersections[i])]],
         eventRects |-> intersections]

\* render without the test for an empty model
render_NoEmptyTest(matrix, dims, selected, hovered) ==
    draw(matrix, dims, selected, hovered)

\* render: the svg is cleared; nothing is drawn for a model without sets or
\* without intersections; else everything is drawn
render(matrix, dims, selected, hovered) ==
    IF Len(getSets(matrix)) = 0 \/ Len(getIntersections(matrix)) = 0
    THEN EmptySvg
    ELSE draw(matrix, dims, selected, hovered)

\* fill of a background cell in updateHighlighting
highlightGridCellFill(selected, hovered, d) ==
    LET isSelected == includes(selected, d.intersection.set)
        isHovered  == hovered = d.intersection.set
    IN  IF isSelected THEN "#FF9806" ELSE IF isHovered THEN "#FFBD62" ELSE "white"

\* the recolouring of a dot with hovered taking precedence over selected
highlightCircleFill_HoverFirst(selected, hovered, d) ==
    LET isSelected == includes(selected, d.intersection.set)
        isHovered  == hovered = d.intersection.set
        isIncluded == isSetInIntersection(d.set, d.intersection.set)
    IN  IF ~isIncluded THEN "#807A79"
        ELSE IF isHovered THEN "#FF9C46"
        ELSE IF isSelected THEN "#FF6F00" ELSE "#030202"

\* fill of a membership dot in updateHighlighting
highlightCircleFill(selected, hovered, d) ==
    LET isSelected == includes(selected, d.intersection.set)
        isHovered  == hovered = d.intersection.set
        isIncluded == isSetInIntersection(d.set, d.intersection.set)
    IN  IF isSelected
        THEN IF isIncluded THEN "#FF6F00" ELSE "#807A79"
        ELSE IF isIncluded
             THEN IF isHovered THEN "#FF9C46" ELSE "#030202"
             ELSE "#807A79"

\* fill of a value bar in updateHighlighting
highlightValueBarFill(selected, hovered, d) ==
    LET isSelected == includes(selected, d.set)
        isHovered  == hovered = d.set
    IN  IF isSelected THEN "#FF6F00" ELSE IF isHovered THEN "#FF9C46" ELSE "#030202"

\* updateHighlighting: the fills of the elements that exist are set again
\* from their data; nothing is removed or added
updateHighlighting(drawn, selected, hovered) ==
    LET recolored(element, fill(_, _, _)) ==
            [element EXCEPT !.fill = fill(selected, hovered, element.datum)]
    IN  [drawn EXCEPT
           !.gridCells = [i \in 1..Len(drawn.gridCells) |->
                            [j \in 1..Len(drawn.gridCells[i]) |->
                               recolored(drawn.gridCells[i][j],
                                         highlightGridCellFill)]],
           !.circles   = [i \in 1..Len(drawn.circles) |->
                            [j \in 1..Len(drawn.circles[i]) |->
                               recolored(drawn.circles[i][j],
                                         highlightCircleFill)]],
           !.valueBars = [i \in 1..Len(drawn.valueBars) |->
                            recolored(drawn.valueBars[i],
                                      highlightValueBarFill)]]

\* the document before any chart was constructed: no #upset-tooltip
NoTooltip == [exists |-> FALSE, opacity |-> "", html |-> <<>>, position |-> <<>>]

\* initTooltip: the element is appended with opacity 0 unless it exists
initTooltip(tip) ==
    IF ~tip.exists
    THEN [exists |-> TRUE, opacity |-> "0", html |-> <<>>, position |-> <<>>]
    ELSE tip

\* the glyph between the components in the tooltip title
Glyph == "^"

\* Array.prototype.join
RECURSIVE join(_, _)
join(parts, sep) ==
    IF parts = <<>> THEN <<>>
    ELSE IF Len(parts) = 1 THEN Head(parts)
    ELSE Head(parts) \o sep \o join(Tail(parts), sep)

\* the content the mouseover handler gives the tooltip
tooltipHtml(d) ==
    <<[title |-> join(split(d.set, COMMA), <<" ", Glyph, " ">>), count |-> d.value]>>

\* the dimensions the chart gets from the initial width, height and font
\* size of Home, the grid having one cell
DefaultDimensions == [width |-> 500, height |-> 500, fontSize |-> 16]

\* no chart constructed
InitPlotState ==
    /\ dimensions = DefaultDimensions
    /\ selectedIntersections = <<>>
    /\ hoveredIntersection = Null
    /\ onIntersectionClick = FALSE
    /\ svg = EmptySvg
    /\ tooltip = NoTooltip
    /\ pointerRow = 0
    /\ opLog = <<>>

(***************************************************************************)
(* parseUpsetMatrix                                                        *)
(***************************************************************************)
StatusValid == 1
StatusParsing == 0
StatusError == -1

\* parseLine without the test for comment lines
parseLine_NoCommentSkip(data, line) ==
    IF trim(line) = <<>>
    THEN [threw |-> FALSE, data |-> data]
    ELSE LET fields == split(line, TAB)
         IN  IF Len(fields) = 2
             THEN LET setName == trim(fields[1])
                      value   == parseInt(trim(fields[2]))
                  IN  IF ~value.isNaN
                      THEN [threw |-> FALSE,
                            data  |-> addIntersection(data, setName, value.number)]
                      ELSE [threw |-> FALSE, data |-> data]
             ELSE [threw |-> TRUE, data |-> data]

\* the callback of lines.forEach: the data after the line, or the throw
parseLine(data, line) ==
    IF trim(line) = <<>>
    THEN [threw |-> FALSE, data |-> data]
    ELSE IF startsWith(line, HASH)
    THEN [threw |-> FALSE, data |-> data]
    ELSE LET fields == split(line, TAB)
         IN  IF Len(fields) = 2
             THEN LET setName == trim(fields[1])
                      value   == parseInt(trim(fields[2]))
                  IN  IF ~value.isNaN
                      THEN [threw |-> FALSE,
                            data  |-> addIntersection(data, setName, value.number)]
                      ELSE [threw |-> FALSE, data |-> data]
             ELSE [threw |-> TRUE, data |-> data]

\* lines.forEach: a throw of the callback ends the loop
RECURSIVE forEachLine(_, _)
forEachLine(data, lines) ==
    IF lines = <<>>
    THEN [threw |-> FALSE, data |-> data]
    ELSE LET r == parseLine(data, Head(lines))
         IN  IF r.threw THEN r ELSE forEachLine(r.data, Tail(lines))

\* a promise: pending, fulfilled with one value, or rejected with a reason
PendingPromise == [state |-> "pending", value |-> <<>>, reason |-> ""]

resolve(v) == [state |-> "fulfilled", value |-> <<v>>, reason |-> ""]

reject(msg) == [state |-> "rejected", value |-> <<>>, reason |-> msg]

\* onload resolving with what was parsed before the throw
onload_ResolvePartial(file) ==
    LET r == forEachLine(NewUpsetMatrixData, split(file.text, NL))
    IN  resolve([data |-> r.data, fileName |-> file.name,
                 status |-> IF r.threw THEN StatusError ELSE StatusValid])

\* reader.onload: the settlement of the promise for a file read as text
onload(file) ==
    LET r == forEachLine(NewUpsetMatrixData, split(file.text, NL))
    IN  IF r.threw
        THEN reject("Failed to parse UpsetMatrix file")
        ELSE resolve([data |-> r.data, fileName |-> file.name,
                      status |-> StatusValid])

\* reader.onerror
onerror == reject("Failed to read the file")

(***************************************************************************)
(* Home                                                                    *)
(***************************************************************************)
InitialUpsetMatrixFile ==
    [data |-> NewUpsetMatrixData, fileName |-> "", status |-> StatusParsing]

\* the files a user may pick in the upload sessions
HomeFiles ==
    { [name |-> "one.tsv",   text |-> <<"a", TAB, "1">>],
      [name |-> "two.tsv",   text |-> <<"a", COMMA, "b", TAB, "2", NL, "b", TAB, "1">>],
      [name |-> "bad.tsv",   text |-> <<"b", TAB, "2", NL, "a">>] }

\* a settled promise whose await continuation has not run yet: the
\* continuation is a microtask and runs before any other event is handled
Settled(u) == u.phase = "awaiting" /\ u.promise.state # "pending"

NoMicrotask == \A i \in 1..Len(uploads) : ~Settled(uploads[i])

\* handleUpsetMatrixFileUpload up to the await: the closure keeps the
\* upsetMatrixFile of the render the handler belongs to
Upload(file) ==
    /\ NoMicrotask
    /\ Len(uploads) < MaxUploads
    /\ uploads' = Append(uploads, [file     |-> file,
                                   captured |-> upsetMatrixFile,
                                   promise  |-> PendingPromise,
                                   phase    |-> "awaiting"])
    /\ UNCHANGED <<upsetMatrix, upsetMatrixFile, completed,
                   errorModalVisible, errorMessage>>
    /\ UNCHANGED plotVars

ReaderOnload(i) ==
    /\ NoMicrotask
    /\ uploads[i].promise.state = "pending"
    /\ uploads' = [uploads EXCEPT ![i].promise = onload(uploads[i].file)]
    /\ UNCHANGED <<upsetMatrix, upsetMatrixFile, completed,
                   errorModalVisible, errorMessage>>
    /\ UNCHANGED plotVars

ReaderOnerror(i) ==
    /\ NoMicrotask
    /\ uploads[i].promise.state = "pending"
    /\ uploads' = [uploads EXCEPT ![i].promise = onerror]
    /\ UNCHANGED <<upsetMatrix, upsetMatrixFile, completed,
                   errorModalVisible, errorMessage>>
    /\ UNCHANGED plotVars

\* the try branch spreading the state of the closure, as the catch branch does
fulfilledState_Stale(u) == [u.captured EXCEPT !.status = StatusValid]

\* the value setUpsetMatrixFile receives in the try branch
fulfilledState(u) == [u.promise.value[1] EXCEPT !.status = StatusValid]

\* the value setUpsetMatrixFile receives in the catch branch
rejectedState(u) == [u.captured EXCEPT !.status = StatusError]

\* handleUpsetMatrixFileUpload after the await, try branch
ResumeFulfilled(i) ==
    /\ uploads[i].phase = "awaiting"
    /\ uploads[i].promise.state = "fulfilled"
    /\ upsetMatrixFile' = fulfilledState(uploads[i])
    /\ uploads' = [uploads EXCEPT ![i].phase = "done"]
    /\ completed' = Append(completed, i)
    /\ UNCHANGED <<upsetMatrix, errorModalVisible, errorMessage>>
    /\ UNCHANGED plotVars

\* handleUpsetMatrixFileUpload after the await, catch branch
ResumeRejected(i) ==
    /\ uploads[i].phase = "awaiting"
    /\ uploads[i].promise.state = "rejected"
    /\ upsetMatrixFile' = rejectedState(uploads[i])
    /\ errorMessage' =
           "Unable to parse the file. Please make sure the file is in BED format."
    /\ errorModalVisible' = TRUE
    /\ uploads' = [uploads EXCEPT ![i].phase = "done"]
    /\ completed' = Append(completed, i)
    /\ UNCHANGED upsetMatrix
    /\ UNCHANGED plotVars

closeErrorModal ==
    /\ NoMicrotask
    /\ errorModalVisible
    /\ errorModalVisible' = FALSE
    /\ UNCHANGED <<upsetMatrix, upsetMatrixFile, uploads, completed, errorMessage>>
    /\ UNCHANGED plotVars

InitHomeState ==
    /\ upsetMatrixFile = InitialUpsetMatrixFile
    /\ completed = <<>>
    /\ errorModalVisible = FALSE
    /\ errorMessage = ""

InitHome ==
    /\ InitHomeState
    /\ InitPlotState
    /\ uploads = <<>>
    /\ upsetMatrix = NewUpsetMatrixData

NextHome ==
    \/ \E file \in HomeFiles : Upload(file)
    \/ \E i \in 1..Len(uploads) : ReaderOnload(i)
    \/ \E i \in 1..Len(uploads) : ReaderOnerror(i)
    \/ \E i \in 1..Len(uploads) : ResumeFulfilled(i)
    \/ \E i \in 1..Len(uploads) : ResumeRejected(i)
    \/ closeErrorModal

SpecHome == InitHome /\ [][NextHome]_vars

(***************************************************************************)
(* The parser on every text of bounded length: one upload of a file of     *)
(* arbitrary content, read and handled by the same callbacks.              *)
(***************************************************************************)
ParseAlphabet == {"a", COMMA, TAB, HASH, " ", "1", "2", "-", NL}

ParseTexts == UNION {[1..n -> ParseAlphabet] : n \in 0..MaxTextLen}

InitParse ==
    /\ InitHomeState
    /\ InitPlotState
    /\ \E t \in ParseTexts :
           uploads = <<[file     |-> [name |-> "input.tsv", text |-> t],
                        captured |-> InitialUpsetMatrixFile,
                        promise  |-> PendingPromise,
                        phase    |-> "awaiting"]>>
    /\ upsetMatrix = NewUpsetMatrixData

NextParse ==
    \/ \E i \in 1..Len(uploads) : ReaderOnload(i)
    \/ \E i \in 1..Len(uploads) : ReaderOnerror(i)
    \/ \E i \in 1..Len(uploads) : ResumeFulfilled(i)
    \/ \E i \in 1..Len(uploads) : ResumeRejected(i)

SpecParse == InitParse /\ [][NextParse]_vars

(***************************************************************************)
(* UpsetMatrixData under any sequence of addIntersection calls             *)
(***************************************************************************)
ModelKeys ==
    { <<"a">>, <<"b">>, <<"a", COMMA, "b">>, <<"b", COMMA, "a", COMMA, "a">>,
      <<"a", COMMA, COMMA, "b">> }

ModelValues == {-1, 1, 2}

AddIntersection(set, value) ==
    /\ Len(upsetMatrix.intersections) < MaxInter
    /\ upsetMatrix' = addIntersection(upsetMatrix, set, value)
    /\ UNCHANGED homeVars
    /\ UNCHANGED plotVars

InitModel ==
    /\ upsetMatrix = NewUpsetMatrixData
    /\ InitHomeState
    /\ InitPlotState
    /\ uploads = <<>>

NextModel == \E set \in ModelKeys, value \in ModelValues : AddIntersection(set, value)

SpecModel == InitModel /\ [][NextModel]_vars

(***************************************************************************)
(* UpsetPlot: one chart instance on a model and the events it handles      *)
(***************************************************************************)
PlotRows ==
    { [set |-> <<"a">>, value |-> 1],
      [set |-> <<"a", COMMA, "b">>, value |-> 2] }

SelectionKeys == { <<"a">>, <<"a", COMMA, "b">> }

\* page coordinates of the pointer events
PagePositions == { <<0, 0>>, <<5, 7>> }

SeqsUpTo(S, n) == UNION {[1..k -> S] : k \in 0..n}

RECURSIVE buildMatrix(_, _)
buildMatrix(data, rows) ==
    IF rows = <<>> THEN data
    ELSE buildMatrix(addIntersection(data, Head(rows).set, Head(rows).value),
                     Tail(rows))

ToSet(array) == Range(array)

\* an entry of opLog; the selection before the run is kept for clicks
LogEntry(op, key, redraw, calls) ==
    [op |-> op, key |-> key,
     before |-> IF op = "click" THEN ToSet(selectedIntersections) ELSE {},
     redraw |-> redraw, calls |-> calls]

Logged(entry) ==
    opLog' = IF opLog = <<>> THEN <<entry>> ELSE <<Last(opLog), entry>>

\* Array.prototype.splice(indexOf(x), 1): the first occurrence only
RECURSIVE withoutFirst(_, _)
withoutFirst(array, x) ==
    IF array = <<>> THEN <<>>
    ELSE IF Head(array) = x THEN Tail(array)
    ELSE <<Head(array)>> \o withoutFirst(Tail(array), x)

\* the toggle removing one occurrence of the key in place of all
toggled_RemoveFirst(selected, key) ==
    IF includes(selected, key)
    THEN withoutFirst(selected, key)
    ELSE Append(selected, key)

\* the selection after a click on the key without external handler: the
\* key is filtered out when included, pushed otherwise
toggled(selected, key) ==
    IF includes(selected, key) THEN without(selected, key) ELSE Append(selected, key)

\* plot()
Plot ==
    /\ tooltip.exists
    /\ svg' = render(upsetMatrix, dimensions, selectedIntersections, hoveredIntersection)
    /\ pointerRow' = 0
    /\ Logged(LogEntry("plot", Null, "full", <<>>))
    /\ UNCHANGED <<selectedIntersections, hoveredIntersection,
                   onIntersectionClick, tooltip>>
    /\ UNCHANGED <<upsetMatrix, dimensions, homeVars>>

\* setSelectedIntersections(intersections)
SetSelectedIntersections(intersections) ==
    /\ tooltip.exists
    /\ selectedIntersections' = intersections
    /\ svg' = render(upsetMatrix, dimensions, intersections, hoveredIntersection)
    /\ pointerRow' = 0
    /\ Logged(LogEntry("setSelectedIntersections", Null, "full", <<>>))
    /\ UNCHANGED <<hoveredIntersection, onIntersectionClick, tooltip>>
    /\ UNCHANGED <<upsetMatrix, dimensions, homeVars>>

\* setOnIntersectionClick(callback)
SetOnIntersectionClick ==
    /\ tooltip.exists
    /\ ~onIntersectionClick
    /\ onIntersectionClick' = TRUE
    /\ Logged(LogEntry("setOnIntersectionClick", Null, "none", <<>>))
    /\ UNCHANGED <<selectedIntersections, hoveredIntersection, svg, tooltip,
                   pointerRow>>
    /\ UNCHANGED <<upsetMatrix, dimensions, homeVars>>

\* the click listener calling the external handler and toggling as well
ClickHandled_AlsoToggles(i) ==
    LET d == svg.eventRects[i]
    IN  /\ onIntersectionClick
        /\ selectedIntersections' =
               IF includes(selectedIntersections, d.set)
               THEN without(selectedIntersections, d.set)
               ELSE Append(selectedIntersections, d.set)
        /\ svg' = render(upsetMatrix, dimensions, selectedIntersections', hoveredIntersection)
        /\ pointerRow' = 0
        /\ Logged(LogEntry("click", d.set, "full", <<d.set>>))
        /\ UNCHANGED <<hoveredIntersection, onIntersectionClick, tooltip>>

\* the click listener of the event rectangle of row i, external handler set
ClickHandled(i) ==
    LET d == svg.eventRects[i]
    IN  /\ onIntersectionClick
        /\ Logged(LogEntry("click", d.set, "none", <<d.set>>))
        /\ UNCHANGED <<selectedIntersections, hoveredIntersection,
                       onIntersectionClick, svg, tooltip, pointerRow>>

\* the click listener of the event rectangle of row i, no external handler
ClickToggle(i) ==
    LET d == svg.eventRects[i]
    IN  /\ ~onIntersectionClick
        /\ selectedIntersections' = toggled(selectedIntersections, d.set)
        /\ svg' = render(upsetMatrix, dimensions, selectedIntersections', hoveredIntersection)
        /\ pointerRow' = 0
        /\ Logged(LogEntry("click", d.set, "full", <<>>))
        /\ UNCHANGED <<hoveredIntersection, onIntersectionClick, tooltip>>

\* the click listener of the event rectangle of row i
Click(i) ==
    /\ ClickHandled(i) \/ ClickToggle(i)
    /\ UNCHANGED <<upsetMatrix, dimensions, homeVars>>

\* the mouseover listener of the event rectangle of row i: the pointer
\* enters a rectangle it was not in
MouseOver(i, page) ==
    LET d             == svg.eventRects[i]
        previousHover == hoveredIntersection
    IN  /\ pointerRow = 0
        /\ pointerRow' = i
        /\ hoveredIntersection' = d.set
        /\ IF previousHover # d.set
           THEN /\ svg' = updateHighlighting(svg, selectedIntersections, d.set)
                /\ Logged(LogEntry("mouseover", d.set, "recolor", <<>>))
           ELSE /\ svg' = svg
                /\ Logged(LogEntry("mouseover", d.set, "none", <<>>))
        /\ tooltip' = [tooltip EXCEPT !.html = tooltipHtml(d),
                                      !.opacity = "0.9",
                                      !.position = <<page[1] + 10, page[2] + 10>>]
        /\ UNCHANGED <<selectedIntersections, onIntersectionClick>>
        /\ UNCHANGED <<upsetMatrix, dimensions, homeVars>>

\* the mouseleave listener running the full render in place of the recolouring
MouseLeave_FullDraw(i) ==
    /\ pointerRow = i
    /\ pointerRow' = 0
    /\ hoveredIntersection' = Null
    /\ svg' = render(upsetMatrix, dimensions, selectedIntersections, Null)
    /\ tooltip' = [tooltip EXCEPT !.opacity = "0"]
    /\ Logged(LogEntry("mouseleave", svg.eventRects[i].set, "full", <<>>))
    /\ UNCHANGED <<selectedIntersections, onIntersectionClick>>
    /\ UNCHANGED <<upsetMatrix, dimensions, homeVars>>

\* the mouseleave listener of the event rectangle of row i
MouseLeave(i) ==
    /\ pointerRow = i
    /\ pointerRow' = 0
    /\ hoveredIntersection' = Null
    /\ svg' = updateHighlighting(svg, selectedIntersections, Null)
    /\ tooltip' = [tooltip EXCEPT !.opacity = "0"]
    /\ Logged(LogEntry("mouseleave", svg.eventRects[i].set, "recolor", <<>>))
    /\ UNCHANGED <<selectedIntersections, onIntersectionClick>>
    /\ UNCHANGED <<upsetMatrix, dimensions, homeVars>>

\* the mousemove listener of the event rectangle of row i
MouseMove(i, page) ==
    /\ pointerRow = i
    /\ tooltip' = [tooltip EXCEPT !.position = <<page[1] + 10, page[2] + 10>>]
    /\ Logged(LogEntry("mousemove", svg.eventRects[i].set, "none", <<>>))
    /\ UNCHANGED <<selectedIntersections, hoveredIntersection,
                   onIntersectionClick, svg, pointerRow>>
    /\ UNCHANGED <<upsetMatrix, dimensions, homeVars>>

\* a chart constructed on a model: the fields of a new UpsetPlot, the
\* tooltip of initTooltip, nothing drawn before plot()
InitPlot ==
    /\ InitHomeState
    /\ uploads = <<>>
    /\ \E rows \in SeqsUpTo(PlotRows, MaxRows) :
           upsetMatrix = buildMatrix(NewUpsetMatrixData, rows)
    /\ dimensions = DefaultDimensions
    /\ selectedIntersections = <<>>
    /\ hoveredIntersection = Null
    /\ onIntersectionClick = FALSE
    /\ svg = EmptySvg
    /\ tooltip = initTooltip(NoTooltip)
    /\ pointerRow = 0
    /\ opLog = <<>>

NextPlot ==
    \/ Plot
    \/ \E intersections \in SeqsUpTo(SelectionKeys, MaxSelArg) :
           SetSelectedIntersections(intersections)
    \/ SetOnIntersectionClick
    \/ \E i \in 1..Len(svg.eventRects) : Click(i)
    \/ \E i \in 1..Len(svg.eventRects), page \in PagePositions : MouseOver(i, page)
    \/ \E i \in 1..Len(svg.eventRects) : MouseLeave(i)
    \/ \E i \in 1..Len(svg.eventRects), page \in PagePositions : MouseMove(i, page)

SpecPlot == InitPlot /\ [][NextPlot]_vars

(***************************************************************************)
(* UpsetPlot: plot() of a chart on every model and every dimensions of     *)
(* bounded size                                                            *)
(***************************************************************************)
\* a name of n characters
NameOfLength(n) == [k \in 1..n |-> "a"]

LayoutWidths == {0, 100, 130, 500}

LayoutHeights == {0, 40, 500}

\* the empty model, a model with a set registered by addSet and no
\* intersection, and the models of one or two single-set rows
LayoutMatrices ==
    {NewUpsetMatrixData, addSet(NewUpsetMatrixData, <<"a">>)}
    \cup {buildMatrix(NewUpsetMatrixData, <<[set |-> NameOfLength(n), value |-> 1]>>) :
             n \in 0..MaxNameLen}
    \cup {buildMatrix(NewUpsetMatrixData,
                      <<[set |-> <<"b", "b">>, value |-> 2],
                        [set |-> NameOfLength(n), value |-> 1]>>) :
             n \in 0..MaxNameLen}

InitLayout ==
    /\ InitHomeState
    /\ uploads = <<>>
    /\ upsetMatrix \in LayoutMatrices
    /\ dimensions \in [width : LayoutWidths, height : LayoutHeights,
                       fontSize : 0..MaxFontHint]
    /\ selectedIntersections = <<>>
    /\ hoveredIntersection = Null
    /\ onIntersectionClick = FALSE
    /\ svg = EmptySvg
    /\ tooltip = initTooltip(NoTooltip)
    /\ pointerRow = 0
    /\ opLog = <<>>

NextLayout == Plot

SpecLayout == InitLayout /\ [][NextLayout]_vars

(***************************************************************************)
(* UpsetPlotWrapper: the effect that replaces the chart, and the pointer    *)
(* events between two runs of it                                            *)
(***************************************************************************)
\* the models the wrapper is handed
WrapperMatrices ==
    { NewUpsetMatrixData,
      buildMatrix(NewUpsetMatrixData, <<[set |-> <<"a">>, value |-> 1]>>),
      buildMatrix(NewUpsetMatrixData,
                  <<[set |-> <<"a">>, value |-> 1],
                    [set |-> <<"a", COMMA, "b">>, value |-> 2]>>) }

\* the dimensions of the grid cell with the font size of the settings
WrapperDimensions ==
    { DefaultDimensions, [width |-> 600, height |-> 500, fontSize |-> 16] }

\* the useEffect of UpsetPlotWrapper on [upsetMatrixFile, width, height,
\* fontSize]: the svg is emptied, a new UpsetPlot is constructed on the
\* cell (initTooltip takes the tooltip of the page when there is one) and
\* plot() is called
Recreate(matrix, dims) ==
    /\ upsetMatrix' = matrix
    /\ dimensions' = dims
    /\ selectedIntersections' = <<>>
    /\ hoveredIntersection' = Null
    /\ onIntersectionClick' = FALSE
    /\ tooltip' = initTooltip(tooltip)
    /\ svg' = render(matrix, dims, <<>>, Null)
    /\ pointerRow' = 0
    /\ Logged(LogEntry("recreate", Null, "full", <<>>))
    /\ UNCHANGED homeVars

\* the page before the wrapper is mounted: no chart, no tooltip
InitWrapper ==
    /\ upsetMatrix = NewUpsetMatrixData
    /\ InitHomeState
    /\ InitPlotState
    /\ uploads = <<>>

NextWrapper ==
    \/ \E matrix \in WrapperMatrices, dims \in WrapperDimensions :
           Recreate(matrix, dims)
    \/ \E i \in 1..Len(svg.eventRects) : Click(i)
    \/ \E i \in 1..Len(svg.eventRects), page \in PagePositions : MouseOver(i, page)
    \/ \E i \in 1..Len(svg.eventRects) : MouseLeave(i)
    \/ \E i \in 1..Len(svg.eventRects), page \in PagePositions : MouseMove(i, page)

SpecWrapper == InitWrapper /\ [][NextWrapper]_vars

(***************************************************************************)
(* Claims                                                                  *)
(***************************************************************************)
\* the comma-separated components of a key, stated on positions: the
\* maximal comma-free stretches (empty ones included) between commas
Components(key) ==
    { SubSeq(key, p[1], p[2]) :
        p \in { q \in (1..(Len(key) + 1)) \X (0..Len(key)) :
                  /\ q[1] <= q[2] + 1
                  /\ \A k \in q[1]..q[2] : key[k] # COMMA
                  /\ (q[1] = 1 \/ key[q[1] - 1] = COMMA)
                  /\ (q[2] = Len(key) \/ key[q[2] + 1] = COMMA) } }

\* C1: after any sequence of addIntersection calls on an empty
\* UpsetMatrixData, getSets() holds exactly the comma-separated components
\* of the keys added so far, each of them once.
C1_SetsAreUnionOfComponents ==
    LET sets == getSets(upsetMatrix)
    IN  /\ Range(sets) =
              UNION { Components(x.set) : x \in Range(getIntersections(upsetMatrix)) }
        /\ \A i, j \in 1..Len(sets) : i # j => sets[i] # sets[j]

\* a name registered by two different calls, one of them with several
\* components, is held once
C1_Witness ==
    LET xs == getIntersections(upsetMatrix)
    IN  /\ Len(xs) = MaxInter
        /\ Len(getSets(upsetMatrix)) >= 2
        /\ \E i, j \in 1..Len(xs) :
              /\ i < j
              /\ Cardinality(Components(xs[j].set)) >= 2
              /\ Components(xs[i].set) \cap Components(xs[j].set) # {}

\* the lines of a text
Lines(text) == split(text, NL)

\* a line the grammar skips: nothing but white space, or '#' first
IsBlank(line) == \A k \in 1..Len(line) : line[k] \in WhiteSpace

IsComment(line) == Len(line) >= 1 /\ line[1] = HASH

IsSkipped(line) == IsBlank(line) \/ IsComment(line)

\* the number of tab-separated fields of a line
FieldCount(line) == Cardinality({k \in 1..Len(line) : line[k] = TAB}) + 1

\* a data line that is a format error
IsMalformed(line) == ~IsSkipped(line) /\ FieldCount(line) # 2

HasMalformedLine(text) ==
    \E k \in 1..Len(Lines(text)) : IsMalformed(Lines(text)[k])

\* the upload was settled by reader.onload (not by a read error)
ParsedUpload(u) ==
    /\ u.promise.state # "pending"
    /\ u.promise.reason # "Failed to read the file"

\* C2: a non-skipped line without exactly two fields rejects the whole
\* file: the promise carries no model, and the application, once it has
\* handled the rejection, holds no intersection of the file.
C2_MalformedLineRejectsWholeFile ==
    \A i \in 1..Len(uploads) :
        LET u == uploads[i]
        IN  (ParsedUpload(u) /\ HasMalformedLine(u.file.text)) =>
                /\ u.promise.state = "rejected"
                /\ u.promise.value = <<>>
                /\ u.phase = "done" =>
                       /\ upsetMatrixFile.status = StatusError
                       /\ getIntersections(upsetMatrixFile.data) = <<>>

\* a file whose first line is a valid record and whose second line has one
\* field has been rejected and handled
C2_Witness ==
    \E i \in 1..Len(uploads) :
        LET u  == uploads[i]
            ls == Lines(u.file.text)
        IN  /\ u.phase = "done"
            /\ u.promise.reason = "Failed to parse UpsetMatrix file"
            /\ Len(ls) = 2
            /\ FieldCount(ls[1]) = 2
            /\ ~IsSkipped(ls[1])
            /\ ~parseInt(trim(split(ls[1], TAB)[2])).isNaN
            /\ IsMalformed(ls[2])

\* a base-10 integer literal: an optional sign, then digits only
IsBase10Integer(s) ==
    /\ s # <<>>
    /\ LET body == IF s[1] \in {"-", "+"} THEN Tail(s) ELSE s
       IN  body # <<>> /\ \A k \in 1..Len(body) : body[k] \in Digits

\* a two-field data line whose trimmed second field is an integer literal
IsIntegerRecord(line) ==
    /\ ~IsSkipped(line)
    /\ FieldCount(line) = 2
    /\ IsBase10Integer(trim(split(line, TAB)[2]))

\* a two-field data line whose trimmed second field is no integer literal
IsInvalidValueLine(line) ==
    /\ ~IsSkipped(line)
    /\ FieldCount(line) = 2
    /\ ~IsBase10Integer(trim(split(line, TAB)[2]))

\* C3: a two-field line whose trimmed second field is not a valid base-10
\* integer is dropped: the parse does not fail because of it, it adds no
\* intersection and registers no set, so a text whose data lines are all of
\* that kind parses to the empty model.
C3_InvalidValueLineDropped ==
    \A i \in 1..Len(uploads) :
        LET u  == uploads[i]
            ls == Lines(u.file.text)
        IN  (/\ ParsedUpload(u)
             /\ \A k \in 1..Len(ls) : IsSkipped(ls[k]) \/ IsInvalidValueLine(ls[k]))
            => /\ u.promise.state = "fulfilled"
               /\ u.promise.value[1].data = NewUpsetMatrixData

\* the records of the lines of a text that are integer records, in order
RECURSIVE IntegerRecords(_)
IntegerRecords(ls) ==
    IF ls = <<>> THEN <<>>
    ELSE IF IsIntegerRecord(Head(ls))
         THEN <<[set   |-> trim(split(Head(ls), TAB)[1]),
                 value |-> parseInt(trim(split(Head(ls), TAB)[2])).number]>>
              \o IntegerRecords(Tail(ls))
         ELSE IntegerRecords(Tail(ls))

\* C4: on a successful parse the intersection list has exactly one entry
\* per line with two fields and an integer second field, in file order, with
\* the trimmed first field as key and the integer as value.
C4_OneEntryPerAcceptedLineInOrder ==
    \A i \in 1..Len(uploads) :
        LET u == uploads[i]
        IN  u.promise.state = "fulfilled" =>
                getIntersections(u.promise.value[1].data) =
                    IntegerRecords(Lines(u.file.text))

\* the text without its skipped lines
RECURSIVE JoinLines(_)
JoinLines(ls) ==
    IF ls = <<>> THEN <<>>
    ELSE IF Len(ls) = 1 THEN Head(ls)
    ELSE Head(ls) \o <<NL>> \o JoinLines(Tail(ls))

DataLinesOnly(text) == JoinLines(SelectSeq(Lines(text), LAMBDA l : ~IsSkipped(l)))

\* C5: blank lines and lines starting with '#' are skipped whatever they
\* contain: the parse settles as it does for the text without them, and it
\* is rejected exactly when a line that is neither blank nor a comment has
\* a number of fields other than two.
C5_BlankAndCommentLinesSkipped ==
    \A i \in 1..Len(uploads) :
        LET u == uploads[i]
        IN  ParsedUpload(u) =>
                /\ u.promise = onload([u.file EXCEPT !.text = DataLinesOnly(@)])
                /\ (u.promise.state = "rejected") <=> HasMalformedLine(u.file.text)

\* a text with a comment line of one field and a blank line of three
\* fields, or with a record after a comment line, has parsed successfully
C5_Witness ==
    \E i \in 1..Len(uploads) :
        LET u  == uploads[i]
            ls == Lines(u.file.text)
        IN  /\ u.promise.state = "fulfilled"
            /\ \E k \in 1..Len(ls) : IsComment(ls[k]) /\ FieldCount(ls[k]) # 2
            /\ \E k \in 1..Len(ls) : IsBlank(ls[k]) /\ FieldCount(ls[k]) > 2

\* C6: every intersection of a successfully parsed model has a
\* non-negative value.
C6_ValuesNonNegative ==
    \A i \in 1..Len(uploads) :
        LET u == uploads[i]
        IN  u.promise.state = "fulfilled" =>
                \A x \in Range(getIntersections(u.promise.value[1].data)) :
                    x.value >= 0

\* the handler of upload i takes its catch branch in this step
FailureHandled(i) ==
    /\ i <= Len(uploads')
    /\ uploads[i].phase = "awaiting"
    /\ uploads[i].promise.state = "rejected"
    /\ uploads'[i].phase = "done"

\* C7: when a failed parse is handled the status becomes Error and the
\* model held is the one held immediately before.
C7_FailureKeepsHeldModel ==
    [][\A i \in 1..Len(uploads) :
           FailureHandled(i) =>
               /\ upsetMatrixFile'.status = StatusError
               /\ upsetMatrixFile'.data = upsetMatrixFile.data]_vars

\* the model a file parses to
ModelOf(file) == forEachLine(NewUpsetMatrixData, Lines(file.text)).data

\* C8: the upload whose handler finished last, if it succeeded, decides the
\* whole held ParsedFile (its model, its file name, status Valid), in
\* whatever order the uploads were requested; and the held model is always
\* the empty one or the complete model of one file.
C8_LastCompletionWinsWholesale ==
    /\ (completed # <<>> /\ uploads[Last(completed)].promise.state = "fulfilled") =>
           LET file == uploads[Last(completed)].file
           IN  upsetMatrixFile = [data     |-> ModelOf(file),
                                  fileName |-> file.name,
                                  status   |-> StatusValid]
    /\ \/ upsetMatrixFile.data = NewUpsetMatrixData
       \/ \E file \in HomeFiles : upsetMatrixFile.data = ModelOf(file)

\* two different files were read successfully and the read of the file
\* requested first completed last
C8_Witness ==
    /\ Len(completed) = 2
    /\ Len(uploads) = 2
    /\ completed = <<2, 1>>
    /\ \A i \in 1..2 : uploads[i].promise.state = "fulfilled"
    /\ uploads[1].file # uploads[2].file
    /\ upsetMatrixFile.fileName = uploads[1].file.name

\* the last two handler runs were clicks on rows of one key
TwoClicksOnOneKey ==
    /\ Len(opLog) = 2
    /\ opLog[1].op = "click"
    /\ opLog[2].op = "click"
    /\ opLog[1].key = opLog[2].key

\* C9: with no external click handler, two clicks in a row on the same row
\* leave the selection, as a set of keys, as it was before the two clicks.
C9_DoubleClickRestoresSelection ==
    (~onIntersectionClick /\ TwoClicksOnOneKey) =>
        ToSet(selectedIntersections) = opLog[1].before

\* two clicks on a key that was selected, among others, before them
C9_Witness ==
    /\ ~onIntersectionClick
    /\ TwoClicksOnOneKey
    /\ opLog[1].key \in opLog[1].before
    /\ Cardinality(opLog[1].before) >= 2
    /\ Len(selectedIntersections) >= 2

\* this step is a run of the click listener
ClickStep == opLog' # <<>> /\ opLog' # opLog /\ Last(opLog').op = "click"

\* C10: with an external click handler registered, a click calls the
\* handler once with the key of the row and changes nothing of the chart:
\* selected, hovered and what is drawn stay, and nothing is redrawn.
C10_HandledClickChangesNothing ==
    [][(onIntersectionClick /\ ClickStep) =>
           /\ \E i \in 1..Len(svg.eventRects) :
                  Last(opLog').calls = <<svg.eventRects[i].set>>
           /\ Last(opLog').calls = <<Last(opLog').key>>
           /\ Last(opLog').redraw = "none"
           /\ selectedIntersections' = selectedIntersections
           /\ hoveredIntersection' = hoveredIntersection
           /\ svg' = svg]_vars

\* a click was passed to the external handler while a row was hovered and a
\* key selected
C10_Witness ==
    /\ onIntersectionClick
    /\ opLog # <<>>
    /\ Last(opLog).op = "click"
    /\ Last(opLog).calls = <<Last(opLog).key>>
    /\ hoveredIntersection # Null
    /\ selectedIntersections # <<>>

\* render has run in the last handler run
Rendered == opLog # <<>> /\ Last(opLog).redraw = "full"

\* the number of elements the svg holds
ElementCount(drawn) ==
    (IF drawn.container THEN 1 ELSE 0) + Len(drawn.setLabels)
    + Len(drawn.gridCells) + Len(drawn.circles) + Len(drawn.valueBars)
    + Len(drawn.eventRects)

\* C11: a render of a model with no set or no intersection draws nothing:
\* the svg holds no element after it.
C11_EmptyModelDrawsNothing ==
    (/\ Rendered
     /\ \/ Len(getSets(upsetMatrix)) = 0
        \/ Len(getIntersections(upsetMatrix)) = 0)
    => ElementCount(svg) = 0

\* plot() has run on the model of an empty input
C11_Witness ==
    /\ Rendered
    /\ Last(opLog).op = "plot"
    /\ upsetMatrix = NewUpsetMatrixData
    /\ svg = EmptySvg

\* the chart width and height left by the margins, the width in hundredths
\* of a pixel: left is 15% of the width and at least 70, right is 10% and at
\* least 60, top and bottom are 30 and 10
EffectiveWidth100(dims) ==
    100 * dims.width
    - (IF 15 * dims.width > 7000 THEN 15 * dims.width ELSE 7000)
    - (IF 10 * dims.width > 6000 THEN 10 * dims.width ELSE 6000)

EffectiveHeight(dims) == dims.height - 40

\* C12: a render of a non-empty model whose effective width or height is
\* zero or negative draws no element.
C12_NonPositiveSizeDrawsNothing ==
    (/\ Rendered
     /\ Len(getSets(upsetMatrix)) > 0
     /\ Len(getIntersections(upsetMatrix)) > 0
     /\ \/ EffectiveWidth100(dimensions) <= 0
        \/ EffectiveHeight(dimensions) <= 0)
    => ElementCount(svg) = 0

\* C13: getMaxIntersectionValue is 0 on a model without intersections and
\* otherwise the greatest of the stored values: it is the value of one of the
\* stored intersections and no stored value exceeds it.
C13_MaxIsGreatestStoredValue ==
    LET xs == getIntersections(upsetMatrix)
        m == getMaxIntersectionValue(upsetMatrix)
    IN  IF Len(xs) = 0 THEN m = 0
        ELSE /\ \E i \in 1..Len(xs) : xs[i].value = m
             /\ \A i \in 1..Len(xs) : xs[i].value <= m

\* the greatest value is neither the first nor the last one added
C13_Witness ==
    LET xs == getIntersections(upsetMatrix)
    IN  /\ Len(xs) >= 3
        /\ xs[2].value = getMaxIntersectionValue(upsetMatrix)
        /\ xs[1].value < xs[2].value
        /\ xs[Len(xs)].value < xs[2].value

PointerOps == {"mouseover", "mouseleave", "mousemove"}

\* what a recolouring leaves alone: the elements and their data, fills apart
SameElements(a, b) ==
    /\ a.container = b.container
    /\ a.layout = b.layout
    /\ a.setLabels = b.setLabels
    /\ a.eventRects = b.eventRects
    /\ Len(a.gridCells) = Len(b.gridCells)
    /\ Len(a.circles) = Len(b.circles)
    /\ Len(a.valueBars) = Len(b.valueBars)

\* C14: the pointer listeners never run the full render and never change the
\* selection. mouseover sets hovered to the key of the row entered and
\* recolours only when that key was not the hovered one; mouseleave sets
\* hovered to null and recolours; mousemove changes neither. A full render
\* is run only by plot, setSelectedIntersections and a click without
\* external handler.
C14_PointerEventsNeverRedraw ==
    [][LET e == Last(opLog')
       IN  /\ e.op \in PointerOps =>
                 /\ e.redraw \in {"none", "recolor"}
                 /\ selectedIntersections' = selectedIntersections
                 /\ SameElements(svg, svg')
                 /\ e.op = "mouseover" =>
                        /\ pointerRow' \in 1..Len(svg.eventRects)
                        /\ hoveredIntersection' = svg.eventRects[pointerRow'].set
                        /\ hoveredIntersection = hoveredIntersection' =>
                               (e.redraw = "none" /\ svg' = svg)
                 /\ e.op = "mouseleave" => hoveredIntersection' = Null
                 /\ e.op = "mousemove" =>
                        /\ hoveredIntersection' = hoveredIntersection
                        /\ e.redraw = "none"
                        /\ svg' = svg
           /\ e.redraw = "full" =>
                 \/ e.op \in {"plot", "setSelectedIntersections"}
                 \/ e.op = "click" /\ ~onIntersectionClick]_vars

\* the pointer entered a row whose key was already the hovered one (a click
\* had redrawn the rows under the pointer): nothing was recoloured
C14_Witness ==
    /\ opLog # <<>>
    /\ Len(opLog) = 2
    /\ opLog[1].op = "click"
    /\ opLog[2].op = "mouseover"
    /\ opLog[2].redraw = "none"
    /\ hoveredIntersection = opLog[1].key
    /\ selectedIntersections # <<>>

\* a render has laid a non-empty model out
LaidOut == Rendered /\ svg.layout # <<>>

\* the label font size of the last layout, in quarters of a pixel
DrawnLabelFontSize4 == svg.layout[1].labelFontSize4

\* the length of the longest set name of the model
LongestSetName ==
    LET sets == getSets(upsetMatrix)
    IN  IF Len(sets) = 0 THEN 0
        ELSE CHOOSE n \in {Len(sets[j]) : j \in 1..Len(sets)} :
                 \A j \in 1..Len(sets) : Len(sets[j]) <= n

\* C15 as stated: the label font size of every layout lies in [8, 12].
C15_LabelFontSizeWithin8And12 ==
    LaidOut => (4 * 8 <= DrawnLabelFontSize4 /\ DrawnLabelFontSize4 <= 4 * 12)

\* C15, amended: the label font size of every layout is at most 12 and at
\* most the font-size hint; it lies in [8, 12] whenever the hint is at least
\* 8, where it is 8 once the longest set name has 24 characters or more; for
\* a hint below 8 it is the hint itself.
C15_LabelFontSizeCappedByHint ==
    LaidOut =>
        /\ DrawnLabelFontSize4 <= 4 * 12
        /\ DrawnLabelFontSize4 <= 4 * dimensions.fontSize
        /\ dimensions.fontSize >= 8 =>
               /\ 4 * 8 <= DrawnLabelFontSize4
               /\ LongestSetName >= 24 => DrawnLabelFontSize4 = 4 * 8
        /\ dimensions.fontSize < 8 =>
               DrawnLabelFontSize4 = 4 * dimensions.fontSize

\* a layout with a hint of 7 and a set name of 24 characters or more: the
\* label font size is 7, below the floor of 8 the names alone would give
C15_Witness ==
    /\ LaidOut
    /\ dimensions.fontSize = 7
    /\ LongestSetName >= 24
    /\ DrawnLabelFontSize4 = 4 * 7

\* C16: the tooltip of the page is visible only while the current chart
\* instance has a hovered row.
C16_TooltipVisibleOnlyWhileHovered ==
    (tooltip.exists /\ tooltip.opacity # "0") => hoveredIntersection # Null

\* the palette: the fill of a cell, a dot and a bar by the state of its row
CellPalette(isSelected, isHovered) ==
    IF isSelected THEN "#FF9806" ELSE IF isHovered THEN "#FFBD62" ELSE "white"

DotPalette(isSelected, isHovered, isIncluded) ==
    IF ~isIncluded THEN "#807A79"
    ELSE IF isSelected THEN "#FF6F00"
    ELSE IF isHovered THEN "#FF9C46" ELSE "#030202"

BarPalette(isSelected, isHovered) ==
    IF isSelected THEN "#FF6F00" ELSE IF isHovered THEN "#FF9C46" ELSE "#030202"

RowSelected(key) == key \in ToSet(selectedIntersections)

RowHovered(key) == key = hoveredIntersection

\* C17: once the chart is drawn, the fill of every cell, dot and bar is the
\* palette's fill for the (selected, hovered, included) state of its row,
\* selected before hovered; what is drawn is what render would draw and
\* what updateHighlighting would leave for the current state.
C17_FillsFollowPalette ==
    svg.container =>
        LET sets == getSets(upsetMatrix)
            rows == getIntersections(upsetMatrix)
        IN  /\ Len(svg.gridCells) = Len(rows)
            /\ Len(svg.circles) = Len(rows)
            /\ Len(svg.valueBars) = Len(rows)
            /\ \A i \in 1..Len(rows) :
                  /\ Len(svg.gridCells[i]) = Len(sets)
                  /\ Len(svg.circles[i]) = Len(sets)
                  /\ svg.valueBars[i].fill =
                         BarPalette(RowSelected(rows[i].set), RowHovered(rows[i].set))
                  /\ \A j \in 1..Len(sets) :
                        /\ svg.gridCells[i][j].fill =
                               CellPalette(RowSelected(rows[i].set),
                                           RowHovered(rows[i].set))
                        /\ svg.circles[i][j].fill =
                               DotPalette(RowSelected(rows[i].set),
                                          RowHovered(rows[i].set),
                                          sets[j] \in Components(rows[i].set))
            /\ svg = render(upsetMatrix, dimensions, selectedIntersections,
                            hoveredIntersection)
            /\ svg = updateHighlighting(svg, selectedIntersections,
                                        hoveredIntersection)

\* the recolouring has just run for a row that is selected and hovered at
\* once, on a chart with a second row and a dot of a set that is not included
C17_Witness ==
    /\ svg.container
    /\ opLog # <<>>
    /\ Last(opLog).redraw = "recolor"
    /\ hoveredIntersection # Null
    /\ RowSelected(hoveredIntersection)
    /\ Len(svg.eventRects) >= 2
    /\ \E i \in 1..Len(svg.circles), j \in 1..Len(svg.setLabels) :
           /\ svg.eventRects[i].set = hoveredIntersection
           /\ svg.circles[i][j].fill = "#807A79"

====
